---- MODULE Spec2Model ----
(***************************************************************************)
(* FairPlay: the play endpoint (views.py), the statistics endpoint and the *)
(* OptimalStoppingGame model (models.py) over a shared database.           *)
(*                                                                         *)
(* Every request runs on a worker with its own SQLAlchemy session.  A      *)
(* session keeps the rows it has loaded until its next commit             *)
(* (expire_on_commit), so an attribute read after a commit is a fresh     *)
(* SELECT and an attribute read before it is the value loaded earlier.     *)
(* Each action below is one database round trip (a SELECT or a commit)     *)
(* together with the local computation that follows it in the handler.     *)
(* The numbers of a game come from numpy's process-wide generator, which   *)
(* all workers share: seeding it and drawing from it are two steps.        *)
(***************************************************************************)
EXTENDS Integers, Sequences, FiniteSets, TLC

\* ------------------------------------------------------------ bounds
MaxGames == 2
MaxWorkers == 2
NumUsers == 2
MaxRequests == 3

\* ------------------------------------------------- program constants
InitialBalance == 1000

\* games_configs.OptimalStoppingConfig (scaled down)
NUMBERS_COUNT == 3
MEAN == 10
STD_LOWER_BOUND == 3
STD_UPPER_BOUND == 3
SEED_LOWER_BOUND == 1
SEED_UPPER_BOUND == 2

Users == 1..NumUsers
Workers == 1..MaxWorkers

\* token_hex(8): the salt the model draws
Salts == {"a3f1"}

\* request.form.get("bet"): absent, non-numeric, zero, valid
NoField == "<absent>"
BetFields == {NoField, "abc", "0", "600"}

\* request.form.get("action")
ActionFields == {NoField, "init", "next", "stop", "hit"}

\* Column value None
None == "None"

\* ------------------------------------------------------------ state
VARIABLES
    balance,    \* User.balance, by user id
    games,      \* the optimal_stopping_game table: a sequence, id = index
    ledger,     \* history: per game, the debits and credits committed for it,
                \* and whether an open view of it has been sent
    req,        \* per worker: the request in progress and its session (live is
                \* history: the game was in progress when play() took the action)
    out,        \* the response the last step sent, with its request (and the bet
                \* field, if the create branch refused it), if it sent one
    started,    \* the number of requests received so far
    rng         \* numpy's process-wide generator: its seed and the draws since

vars == <<balance, games, ledger, req, out, started, rng>>

\* ------------------------------------------------- pure functions

\* str.isnumeric() on the bet fields the model draws from
isnumeric(s) == s \in {"0", "600"}

\* int(bet)
int(s) == CASE s = "0" -> 0 [] s = "600" -> 600 [] OTHER -> 0

\* secure_random(lo, hi)
secure_random(lo, hi) == lo..hi

\* The standard normal deviate, in tenths, that the generator seeded with
\* `seed` yields at its draw number i (0-based): a fixed function of the seed
Deviate(seed, i) == ((8 * seed + 10 * i + 9 * seed * i) % 13) * 5 - 30

\* float -> int conversion of ndarray.astype(int): truncation toward zero
astype_int(tenths) ==
    IF tenths >= 0 THEN tenths \div 10 ELSE -((-tenths) \div 10)

\* np.random.normal(mean, std, count).astype(int) on a generator in state gen:
\* element i+1 is the code's element i
normal(gen, mean, std, count) ==
    [i \in 1..count |->
        astype_int(mean * 10 + std * Deviate(gen.seed, gen.drawn + i - 1))]

\* np.random.seed(seed)
seeded(seed) == [seed |-> seed, drawn |-> 0]

\* The sequence of game g: what OptimalStoppingGame.numbers returns when
\* nothing touches the generator between its two statements
deriveSequence(g) == normal(seeded(g.seed), g.mean, g.std, g.numbers_count)

\* Python's max() over a non-empty sequence
RECURSIVE max(_)
max(s) ==
    IF Len(s) = 1 THEN s[1]
    ELSE LET m == max(Tail(s)) IN IF s[1] >= m THEN s[1] ELSE m

\* OptimalStoppingGame._game_setup: f"{seed}:{std}"
_game_setup(g) == <<g.seed, ":", g.std>>

\* BaseGame.hashed_setup: sha256 of f"{_game_setup}:{salt}", a one-way
\* collision-free function of the formatted text
hashed_setup(g) == [sha256 |-> _game_setup(g) \o <<":", g.salt>>]

\* OptimalStoppingGame._win_condition
_win_condition(nums, position) == nums[position + 1] = max(nums)

\* A Python bool as the win column stores it
Bool3(b) == IF b THEN "True" ELSE "False"

\* --------------------------------------------------- rows and sessions

\* A row of the game table as BaseGame.create inserts it (column defaults
\* of models.py:42-43 and 97-102)
NewGame(user_id, bet, salt, setup_params) ==
    [user_id |-> user_id, bet |-> bet, salt |-> salt,
     seed |-> setup_params.seed, std |-> setup_params.std,
     mean |-> MEAN, std_lower_bound |-> STD_LOWER_BOUND,
     std_upper_bound |-> STD_UPPER_BOUND, numbers_count |-> NUMBERS_COUNT,
     position |-> 0, game_over |-> FALSE, win |-> None]

\* OptimalStoppingGame._generate_setup: the setups it can return
_generate_setup ==
    [seed : secure_random(SEED_LOWER_BOUND, SEED_UPPER_BOUND),
     std : secure_random(STD_LOWER_BOUND, STD_UPPER_BOUND)]

\* A session attribute that its last commit expired: the next read is a SELECT
Expired == [expired |-> TRUE]

\* The columns play() writes, of game g, as a SELECT returns them now
LoadGame(g) ==
    [position |-> games[g].position, win |-> games[g].win,
     game_over |-> games[g].game_over]

\* load_user / a refresh of current_user
LoadUser(u) == [balance |-> balance[u]]

NoResp == [kind |-> "none"]

IdleReq ==
    [pc |-> "idle", method |-> None, user |-> 0, gid |-> 0, created |-> FALSE,
     ubal |-> Expired, sg |-> Expired, dirty |-> Expired, act |-> None,
     ok |-> FALSE, live |-> FALSE, bal0 |-> 0, todo |-> <<>>, data |-> <<>>]

\* No response leaves the server at this step
Silent ==
    [method |-> None, user |-> 0, gid |-> 0, created |-> FALSE, act |-> None,
     ok |-> FALSE, bet |-> None, resp |-> NoResp]

\* The response a finished request sent, with the request it answers
Sent(r, resp) ==
    [method |-> req[r].method, user |-> req[r].user, gid |-> req[r].gid,
     created |-> req[r].created, act |-> req[r].act, ok |-> req[r].ok,
     bet |-> None, resp |-> resp]

\* Game g with the columns play() writes taken from a session's copy
Object(g, cols) ==
    [games[g] EXCEPT !.position = cols.position, !.win = cols.win,
                     !.game_over = cols.game_over]

\* The game object worker r's session holds
SessionGame(r) == Object(req[r].gid, req[r].sg)

\* BaseGame.get: the rows of filter_by(user_id=..., game_over=False)
OpenGames(u) ==
    {g \in DOMAIN games : games[g].user_id = u /\ ~games[g].game_over}

\* ------------------------------------------------------------- views

OPEN_ATTRIBUTES ==
    {"hashed_setup", "revealed_numbers", "position", "numbers_count", "mean",
     "std_lower_bound", "std_upper_bound"}

CLOSED_ATTRIBUTES ==
    {"win", "hashed_setup", "salt", "numbers", "position", "numbers_count",
     "mean", "std_lower_bound", "std_upper_bound", "seed", "std"}

\* OptimalStoppingGame.revealed_numbers: numbers[:position + 1]
revealed_numbers(g, nums) == SubSeq(nums, 1, g.position + 1)

\* getattr(game, attr), nums being what game.numbers returned
getattr(g, attr, nums) ==
    CASE attr = "hashed_setup" -> hashed_setup(g)
      [] attr = "revealed_numbers" -> revealed_numbers(g, nums)
      [] attr = "numbers" -> nums
      [] OTHER -> g[attr]

\* BaseGame.open_data
open_data(g, nums) == [attr \in OPEN_ATTRIBUTES |-> getattr(g, attr, nums)]

\* BaseGame.closed_data
closed_data(g, nums) == [attr \in CLOSED_ATTRIBUTES |-> getattr(g, attr, nums)]

\* render_template(template_path, **game.open_data(), ...) (views.py:84, 106)
OpenView(obj, nums, method) ==
    [kind |-> "open", data |-> open_data(obj, nums),
     active_game |-> IF method = "POST" THEN "True" ELSE None]

\* render_template(template_path, message=..., active_game=False)
MessageView(msg) == [kind |-> "message", message |-> msg, active_game |-> "False"]

\* render_template(template_path, active_game=False) (views.py:85)
NoGameView == [kind |-> "no_game", active_game |-> "False"]

\* render_template("statistics.html", data=data) (views.py:122)
StatisticsView(data) == [kind |-> "statistics", data |-> data]

\* ------------------------------------------------------ play(), models.py

\* A payload check that lets "next" through at every position
_check_payload_any_position(obj, action) == action \in {"init", "stop", "next"}

\* OptimalStoppingGame._check_payload
_check_payload(obj, action) ==
    /\ action \in {"init", "stop", "next"}
    /\ ~(action = "next" /\ obj.position = NUMBERS_COUNT - 1)

\* The columns the "stop" branch assigns, nums being what self.numbers returned
play_stop(obj, nums) ==
    [obj EXCEPT !.win = Bool3(_win_condition(nums, obj.position)),
                !.game_over = TRUE]

\* The columns the "next" branch assigns
play_next(obj) == [obj EXCEPT !.position = obj.position + 1]

\* db.session.commit() of a game object: the UPDATE sets the columns whose
\* value differs from the one the session loaded
Flush(row, loaded, obj) ==
    [col \in DOMAIN row |-> IF obj[col] # loaded[col] THEN obj[col] ELSE row[col]]

\* ------------------------------------------------------------ Init

Init ==
    /\ balance = [u \in Users |-> InitialBalance]
    /\ games = <<>>
    /\ ledger = <<>>
    /\ req = [r \in Workers |-> IdleReq]
    /\ out = Silent
    /\ started = 0
    /\ rng = seeded(0)

\* Worker r takes the next request: the first idle worker does
Free(r) ==
    /\ req[r].pc = "idle"
    /\ \A o \in Workers : o < r => req[o].pc # "idle"
    /\ started < MaxRequests

\* The request of worker r ends with response resp
Return(r, resp) ==
    /\ out' = Sent(r, resp)
    /\ req' = [req EXCEPT ![r] = IdleReq]

\* The request of worker r ends in the create branch, which read bet field bet
Refuse(r, bet, resp) ==
    /\ out' = [Sent(r, resp) EXCEPT !.bet = bet]
    /\ req' = [req EXCEPT ![r] = IdleReq]

\* ----------------------------------------------------------- actions

\* GET /play/optimal-stopping: load_user and game_model.get() (views.py:81-85)
GetPage(r, u) ==
    /\ Free(r)
    /\ \/ /\ OpenGames(u) = {}
          /\ out' = [Sent(r, NoGameView) EXCEPT !.method = "GET", !.user = u]
          /\ UNCHANGED req
       \/ /\ \E g \in OpenGames(u) :
               req' = [req EXCEPT ![r] =
                   [IdleReq EXCEPT !.pc = "respond", !.method = "GET", !.user = u,
                                   !.gid = g, !.sg = LoadGame(g)]]
          /\ out' = Silent
    /\ UNCHANGED <<balance, games, ledger, rng>>

\* GET /statistics: the query of views.py:118, rows in id order
Statistics(r, u) ==
    /\ Free(r)
    /\ LET completed_games ==
               {g \in DOMAIN games : games[g].user_id = u /\ games[g].game_over}
           rows == [i \in 1..Len(games) |-> [id |-> i, cols |-> LoadGame(i)]]
           todo == SelectSeq(rows, LAMBDA row : row.id \in completed_games)
       IN IF todo = <<>>
          THEN /\ out' = [Sent(r, StatisticsView(<<>>))
                             EXCEPT !.method = "GET", !.user = u]
               /\ UNCHANGED req
          ELSE /\ req' = [req EXCEPT ![r] =
                      [IdleReq EXCEPT !.pc = "stats_seed", !.method = "GET",
                                      !.user = u, !.todo = todo]]
               /\ out' = Silent
    /\ UNCHANGED <<balance, games, ledger, rng>>

\* completed_game.closed_data() reads numbers: np.random.seed(self.seed)
StatsSeed(r) ==
    /\ req[r].pc = "stats_seed"
    /\ rng' = seeded(games[Head(req[r].todo).id].seed)
    /\ req' = [req EXCEPT ![r].pc = "stats_draw"]
    /\ out' = Silent
    /\ UNCHANGED <<balance, games, ledger>>

\* ... np.random.normal(...), and the rest of the loop body (views.py:119-122)
StatsDraw(r) ==
    /\ req[r].pc = "stats_draw"
    /\ LET row == Head(req[r].todo)
           obj == Object(row.id, row.cols)
           nums == normal(rng, obj.mean, obj.std, obj.numbers_count)
           data == Append(req[r].data, closed_data(obj, nums))
       IN /\ rng' = [rng EXCEPT !.drawn = @ + obj.numbers_count]
          /\ IF Tail(req[r].todo) = <<>>
             THEN Return(r, StatisticsView(data))
             ELSE /\ req' = [req EXCEPT ![r].pc = "stats_seed",
                                        ![r].todo = Tail(@), ![r].data = data]
                  /\ out' = Silent
    /\ UNCHANGED <<balance, games, ledger>>

\* POST /play/optimal-stopping: login_required loads current_user (app.py:20-22)
StartPost(r, u) ==
    /\ Free(r)
    /\ req' = [req EXCEPT ![r] =
           [IdleReq EXCEPT !.pc = "get", !.method = "POST", !.user = u,
                           !.ubal = LoadUser(u), !.bal0 = balance[u]]]
    /\ out' = Silent
    /\ UNCHANGED <<balance, games, ledger, rng>>

\* game = game_model.get() (views.py:81; models.py:72-76): .first() of a query
\* with no ORDER BY returns any one of the matching rows
Get(r) ==
    /\ req[r].pc = "get"
    /\ \/ /\ OpenGames(req[r].user) = {}
          /\ req' = [req EXCEPT ![r].pc = "create"]
       \/ \E g \in OpenGames(req[r].user) :
            req' = [req EXCEPT ![r].pc = "play", ![r].gid = g, ![r].sg = LoadGame(g)]
    /\ out' = Silent
    /\ UNCHANGED <<balance, games, ledger, rng>>

\* views.py:87-95 and BaseGame.create (models.py:60-70), up to its commit
Create(r) ==
    /\ req[r].pc = "create"
    /\ \E bet \in BetFields :
         IF bet = NoField
         THEN \* None.isnumeric(): AttributeError, the request ends in a 500
              /\ Refuse(r, bet, [kind |-> "error"])
              /\ UNCHANGED <<balance, games, ledger>>
         ELSE IF ~isnumeric(bet) \/ ~(int(bet) > 0)
         THEN /\ Refuse(r, bet, MessageView("Invalid bet."))
              /\ UNCHANGED <<balance, games, ledger>>
         ELSE IF req[r].ubal.balance < int(bet)
         THEN /\ Refuse(r, bet, MessageView("You don't have enough money."))
              /\ UNCHANGED <<balance, games, ledger>>
         ELSE /\ Len(games) < MaxGames
              /\ \E salt \in Salts, setup_params \in _generate_setup :
                   games' = Append(games,
                                NewGame(req[r].user, int(bet), salt, setup_params))
              /\ ledger' = Append(ledger, [debits |-> 0, credits |-> 0, opened |-> FALSE])
              /\ req' = [req EXCEPT ![r].pc = "debit_read", ![r].gid = Len(games) + 1,
                                    ![r].created = TRUE, ![r].ubal = Expired,
                                    ![r].sg = Expired]
              /\ out' = Silent
              /\ UNCHANGED balance
    /\ UNCHANGED rng

\* current_user.balance -= bet (views.py:97): the expired user is re-read
DebitRead(r) ==
    /\ req[r].pc = "debit_read"
    /\ req' = [req EXCEPT ![r].pc = "debit_commit", ![r].ubal = LoadUser(req[r].user)]
    /\ out' = Silent
    /\ UNCHANGED <<balance, games, ledger, rng>>

\* db.session.commit() (views.py:98)
DebitCommit(r) ==
    /\ req[r].pc = "debit_commit"
    /\ balance' = [balance EXCEPT ![req[r].user] =
                       req[r].ubal.balance - games[req[r].gid].bet]
    /\ ledger' = [ledger EXCEPT ![req[r].gid].debits = @ + 1]
    /\ req' = [req EXCEPT ![r].pc = "play", ![r].ubal = Expired, ![r].sg = Expired]
    /\ out' = Silent
    /\ UNCHANGED <<games, rng>>

\* OptimalStoppingGame.play (models.py:126-143) on a loaded game object, up to
\* its first access to the database or to the generator
PlayLoaded(r, action) ==
    LET g == req[r].gid
        loaded == SessionGame(r)
    IN IF ~_check_payload(loaded, action) \/ action = "init"
       THEN /\ req' = [req EXCEPT ![r].pc = "win", ![r].act = action,
                                  ![r].ok = _check_payload(loaded, action),
                                  ![r].live = ~games[g].game_over]
            /\ UNCHANGED <<games, rng>>
       ELSE IF action = "next"
       THEN /\ games' = [games EXCEPT ![g] = Flush(games[g], loaded, play_next(loaded))]
            /\ req' = [req EXCEPT ![r].pc = "win", ![r].act = action,
                                  ![r].ok = TRUE, ![r].live = ~games[g].game_over,
                                  ![r].ubal = Expired, ![r].sg = Expired]
            /\ UNCHANGED rng
       ELSE \* "stop": numbers = self.numbers starts with np.random.seed(self.seed)
            /\ rng' = seeded(loaded.seed)
            /\ req' = [req EXCEPT ![r].pc = "stop_draw", ![r].act = action,
                                  ![r].ok = TRUE, ![r].live = ~games[g].game_over]
            /\ UNCHANGED games

\* game.play(request.form) (views.py:100).  After a create the game object is
\* expired: the first column play() reads (self.position) re-reads the row.
Play(r) ==
    /\ req[r].pc = "play"
    /\ \E action \in ActionFields :
         IF req[r].sg = Expired /\ action \in {"next", "stop"}
         THEN /\ req' = [req EXCEPT ![r].pc = "play_loaded", ![r].act = action,
                                    ![r].sg = LoadGame(req[r].gid)]
              /\ UNCHANGED <<games, rng>>
         ELSE PlayLoaded(r, action)
    /\ out' = Silent
    /\ UNCHANGED <<balance, ledger>>

\* play() goes on with the row it has re-read
PlayReloaded(r) ==
    /\ req[r].pc = "play_loaded"
    /\ PlayLoaded(r, req[r].act)
    /\ out' = Silent
    /\ UNCHANGED <<balance, ledger>>

\* ... np.random.normal(...) of self.numbers, then models.py:137-138
StopDraw(r) ==
    /\ req[r].pc = "stop_draw"
    /\ LET loaded == SessionGame(r)
           nums == normal(rng, loaded.mean, loaded.std, loaded.numbers_count)
       IN /\ rng' = [rng EXCEPT !.drawn = @ + loaded.numbers_count]
          /\ req' = [req EXCEPT ![r].pc = "stop_commit",
                                ![r].dirty = play_stop(req[r].sg, nums)]
    /\ out' = Silent
    /\ UNCHANGED <<balance, games, ledger>>

\* db.session.add(self); db.session.commit() (models.py:142-143)
StopCommit(r) ==
    /\ req[r].pc = "stop_commit"
    /\ LET g == req[r].gid
       IN games' = [games EXCEPT ![g] =
                       Flush(games[g], SessionGame(r), Object(g, req[r].dirty))]
    /\ req' = [req EXCEPT ![r].pc = "win", ![r].ubal = Expired, ![r].sg = Expired,
                          ![r].dirty = Expired]
    /\ out' = Silent
    /\ UNCHANGED <<balance, ledger, rng>>

\* The rest of the handler from a loaded game object (views.py:105-109): the
\* message, or the open view, whose revealed_numbers starts with np.random.seed
Render(r) ==
    LET obj == SessionGame(r)
    IN IF ~obj.game_over
       THEN /\ rng' = seeded(obj.seed)
            /\ req' = [req EXCEPT ![r].pc = "view_draw"]
            /\ out' = Silent
       ELSE /\ Return(r, MessageView(IF obj.win = "True" THEN "You win."
                                     ELSE "You lose."))
            /\ UNCHANGED rng

\* if game.win (views.py:101): an expired game object is re-read first; a
\* truthy win goes on to read current_user.balance (views.py:102), which the
\* commit that set it has expired
Win(r) ==
    /\ req[r].pc = "win"
    /\ IF req[r].sg = Expired
       THEN /\ req' = [req EXCEPT ![r].sg = LoadGame(req[r].gid)]
            /\ out' = Silent
            /\ UNCHANGED rng
       ELSE IF req[r].sg.win = "True"
       THEN /\ req' = [req EXCEPT ![r].pc = "credit_commit",
                                  ![r].ubal = IF req[r].ubal = Expired
                                              THEN LoadUser(req[r].user)
                                              ELSE req[r].ubal]
            /\ out' = Silent
            /\ UNCHANGED rng
       ELSE Render(r)
    /\ UNCHANGED <<balance, games, ledger>>

\* current_user.balance += 2 * game.bet; db.session.commit() (views.py:102-103)
CreditCommit(r) ==
    /\ req[r].pc = "credit_commit"
    /\ balance' = [balance EXCEPT ![req[r].user] =
                       req[r].ubal.balance + 2 * games[req[r].gid].bet]
    /\ ledger' = [ledger EXCEPT ![req[r].gid].credits = @ + 1]
    /\ req' = [req EXCEPT ![r].pc = "respond", ![r].ubal = Expired, ![r].sg = Expired]
    /\ out' = Silent
    /\ UNCHANGED <<games, rng>>

\* views.py:105-109 (and views.py:83-84 of a GET): game.game_over re-reads a
\* row that a commit has expired
Respond(r) ==
    /\ req[r].pc = "respond"
    /\ IF req[r].sg = Expired
       THEN /\ req' = [req EXCEPT ![r].sg = LoadGame(req[r].gid)]
            /\ out' = Silent
            /\ UNCHANGED rng
       ELSE Render(r)
    /\ UNCHANGED <<balance, games, ledger>>

\* ... np.random.normal(...) of revealed_numbers, and the open view is sent
ViewDraw(r) ==
    /\ req[r].pc = "view_draw"
    /\ LET obj == SessionGame(r)
           nums == normal(rng, obj.mean, obj.std, obj.numbers_count)
       IN /\ rng' = [rng EXCEPT !.drawn = @ + obj.numbers_count]
          /\ Return(r, OpenView(obj, nums, req[r].method))
    /\ ledger' = [ledger EXCEPT ![req[r].gid].opened = TRUE]
    /\ UNCHANGED <<balance, games>>

\* The worker dies between two steps: what it committed stays, the rest of
\* its session is lost and no response is sent
Crash(r) ==
    /\ req[r].pc # "idle"
    /\ req' = [req EXCEPT ![r] = IdleReq]
    /\ out' = Silent
    /\ UNCHANGED <<balance, games, ledger, rng, started>>

\* Worker r receives a request of some user
Receive(r) ==
    /\ started' = started + 1
    /\ \E u \in Users : GetPage(r, u) \/ Statistics(r, u) \/ StartPost(r, u)

\* Worker r goes on with the request it is handling
Handle(r) ==
    /\ UNCHANGED started
    /\ \/ Get(r)
       \/ Create(r)
       \/ DebitRead(r)
       \/ DebitCommit(r)
       \/ Play(r)
       \/ PlayReloaded(r)
       \/ StopDraw(r)
       \/ StopCommit(r)
       \/ Win(r)
       \/ CreditCommit(r)
       \/ Respond(r)
       \/ ViewDraw(r)
       \/ StatsSeed(r)
       \/ StatsDraw(r)

Step(r) == Receive(r) \/ Handle(r)

Next == \E r \in Workers : Step(r)

Spec == Init /\ [][Next]_vars

\* Requests handled one at a time, by workers that can die
NextCrash ==
    \E r \in Workers :
        (\A o \in Workers \ {r} : req[o].pc = "idle") /\ (Step(r) \/ Crash(r))

SpecCrash == Init /\ [][NextCrash]_vars

\* Requests handled one at a time, each to completion
NextSeq ==
    \E r \in Workers : (\A o \in Workers \ {r} : req[o].pc = "idle") /\ Step(r)

SpecSeq == Init /\ [][NextSeq]_vars

\* ------------------------------------------------------------ claims

Idle == \A r \in Workers : req[r].pc = "idle"

\* Worker r takes a step
Moves(r) == req'[r] # req[r]

\* The number at 0-based index position is the largest of nums
IsPeak(nums, position) == \A i \in DOMAIN nums : nums[i] <= nums[position + 1]

\* C1: in every reachable state each user has at most one game with
\* game_over = false.
C1_OneOpenGamePerUser == \A u \in Users : Cardinality(OpenGames(u)) <= 1

\* C2: the commit of an accepted "stop" leaves win = true exactly when the
\* number at the position the stop was issued at is the maximum of the game's
\* full derived sequence, and win = false otherwise.
C2_StopSetsWinIffGlobalPeak ==
    [][\A r \in Workers :
         (req[r].pc = "stop_commit" /\ req'[r].pc = "win")
         => LET g == req[r].gid
            IN games'[g].win =
                   Bool3(IsPeak(deriveSequence(games[g]), req[r].sg.position))]_vars

\* C3: with requests handled one at a time, a request that creates a game with
\* bet b leaves the balance at its value before the request minus b.
C3_CreateLeavesBalanceMinusBet ==
    [][\A r \in Workers :
         (req[r].created /\ req'[r].pc = "idle")
         => balance'[req[r].user] = req[r].bal0 - games[req[r].gid].bet]_vars

\* C4: in every persisted state no request is working on, every game that
\* exists has had its bet debited (creation and debit are one atomic unit).
C4_GameIffDebited ==
    Idle => \A g \in DOMAIN games : ledger[g].debits = 1

\* C5: no game is credited more than once, and none that has not resolved with
\* win = true is credited.
C5_CreditedAtMostOnce ==
    \A g \in DOMAIN games :
        /\ ledger[g].credits <= 1
        /\ ledger[g].credits = 1 => games[g].game_over

\* C6: the position of a game never decreases.
C6_PositionNeverDecreases ==
    [][\A g \in DOMAIN games : games'[g].position >= games[g].position]_vars

\* The session of worker r holds an in-progress game at its last position
AtLastPosition(r) ==
    /\ req[r].sg # Expired
    /\ ~req[r].sg.game_over
    /\ req[r].sg.position = games[req[r].gid].numbers_count - 1

\* C7: a "next" on an in-progress game whose position is numbers_count - 1 is
\* rejected: no step of that request changes a game or a balance, and it
\* answers with the open view of the game at that position.
C7_NextAtLastPositionRejected ==
    [][\A r \in Workers :
         /\ ( /\ req[r].pc \in {"play", "play_loaded"}
              /\ req'[r].pc \notin {"play", "play_loaded"}
              /\ req'[r].act = "next"
              /\ AtLastPosition(r) )
            => /\ req'[r].pc = "win"
               /\ ~req'[r].ok
               /\ games' = games /\ balance' = balance
         /\ ( /\ req[r].pc \in {"win", "view_draw"}
              /\ req[r].act = "next"
              /\ AtLastPosition(r)
              /\ Moves(r) )
            => /\ games' = games /\ balance' = balance
               /\ req'[r].pc \in {"view_draw", "idle"}
               /\ req'[r].pc = "idle"
                  => /\ out'.resp.kind = "open"
                     /\ out'.resp.data.position = req[r].sg.position]_vars

\* C7 witness: a rejected "next" at the last position has been answered
C7_Witness ==
    /\ out.act = "next" /\ ~out.ok
    /\ out.resp.kind = "open"
    /\ out.resp.data.position = NUMBERS_COUNT - 1
    /\ games[out.gid].position = NUMBERS_COUNT - 1
    /\ ~games[out.gid].game_over

\* C8: once win is not null it is never assigned again.
C8_WinAssignedOnce ==
    [][\A g \in DOMAIN games :
         games[g].win # None => games'[g].win = games[g].win]_vars

\* C9: the sequence regenerated after resolution (the numbers of a closed
\* record) is the sequence of the record's seed, mean, std and numbers_count.
C9_RegeneratedSequenceIsDerived ==
    out.resp.kind = "statistics"
    => \A i \in DOMAIN out.resp.data :
           out.resp.data[i].numbers = deriveSequence(out.resp.data[i])

\* C10: an open view carries the open attributes only, with the numbers of the
\* game up to its position and no others; a statistics response carries the
\* closed data of resolved games of the requesting user only.
C10_SecretsOnlyAfterResolution ==
    /\ out.resp.kind = "open"
       => /\ DOMAIN out.resp.data \subseteq
                 {"hashed_setup", "revealed_numbers", "position", "numbers_count",
                  "mean", "std_lower_bound", "std_upper_bound"}
          /\ out.resp.data.revealed_numbers =
                 SubSeq(deriveSequence(games[out.gid]), 1, out.resp.data.position + 1)
    /\ out.resp.kind = "statistics"
       => \A i \in DOMAIN out.resp.data :
              \E g \in DOMAIN games :
                  /\ games[g].user_id = out.user
                  /\ games[g].game_over
                  /\ out.resp.data[i].hashed_setup = hashed_setup(games[g])

\* C11: a game is resolved only after a response has carried its hashed_setup
\* (an open view of it has been sent).
C11_HashShownBeforeResolution ==
    \A g \in DOMAIN games : games[g].game_over => ledger[g].opened

\* C12: a request that has created a game ends with that game at position 0,
\* in progress and with win null, and answers with the open view of it.
C12_CreateLeavesFreshGame ==
    [][\A r \in Workers :
         (req[r].created /\ req'[r].pc = "idle")
         => /\ games'[req[r].gid].position = 0
            /\ ~games'[req[r].gid].game_over
            /\ games'[req[r].gid].win = None
            /\ out'.resp.kind = "open"
            /\ out'.resp.data.position = 0]_vars

\* The action of worker r's request is one play() does nothing for
NoOpAction(r) == req[r].act \in {"init", "hit", NoField}

\* C13: a request whose action is "init", or outside {init, next, stop}, or
\* missing, issued on a game in progress, changes no game and no balance in
\* play() or after it, and answers with the open view of the game if the
\* game is still in progress.
C13_InitAndUnknownAreNoOps ==
    [][\A r \in Workers :
         /\ (req[r].pc = "play" /\ req'[r].pc # "play" /\ req'[r].live
                /\ req'[r].act \in {"init", "hit", NoField})
            => /\ req'[r].pc = "win"
               /\ games' = games /\ balance' = balance
         /\ (req[r].pc \in {"win", "credit_commit", "respond", "view_draw"}
                /\ NoOpAction(r) /\ req[r].live /\ Moves(r))
            => /\ games' = games /\ balance' = balance
               /\ (req'[r].pc = "idle" /\ ~games[req[r].gid].game_over)
                  => out'.resp.kind = "open"]_vars

\* C14: in the create branch a bet that is non-numeric or not above 0 is
\* answered "Invalid bet.", one above the user's balance "You don't have
\* enough money.", both without a change of games or balances; and a game is
\* created only with 0 < bet <= balance.
C14_BetValidation ==
    [][\A r \in Workers :
         (req[r].pc = "create" /\ Moves(r))
         => LET u == req[r].user
            IN /\ out'.bet \in {"abc", "0"}
                  => /\ out'.resp = MessageView("Invalid bet.")
                     /\ games' = games /\ balance' = balance
               /\ (out'.bet = "600" /\ 600 > balance[u])
                  => /\ out'.resp = MessageView("You don't have enough money.")
                     /\ games' = games /\ balance' = balance
               /\ games' # games
                  => /\ Len(games') = Len(games) + 1
                     /\ games'[Len(games')].bet > 0
                     /\ games'[Len(games')].bet <= balance[u]]_vars

\* C15: every persisted game with game_over = true has win equal to
\* (numbers[position] = max(numbers)) for its persisted position, and the
\* position of a game does not change once game_over is set.
C15_StopNextRaceConsistent ==
    [][\A g \in DOMAIN games' :
         /\ games'[g].game_over
            => games'[g].win =
                   Bool3(IsPeak(deriveSequence(games'[g]), games'[g].position))
         /\ (g \in DOMAIN games /\ games[g].game_over)
            => games'[g].position = games[g].position]_vars

\* The game whose numbers worker r is about to draw
Drawing(r) ==
    IF req[r].pc = "stats_draw" THEN Head(req[r].todo).id ELSE req[r].gid

\* C16: every evaluation of a game's numbers yields the sequence of its
\* stored seed, mean, std and numbers_count, whatever other requests do
\* between the step that seeds the generator and the step that draws.
C16_NumbersDeterministic ==
    [][\A r \in Workers :
         (req[r].pc \in {"stop_draw", "view_draw", "stats_draw"} /\ Moves(r))
         => LET g == games[Drawing(r)]
            IN normal(rng, g.mean, g.std, g.numbers_count) = deriveSequence(g)]_vars

\* C17: in every reachable state every user's balance is at least 0.
C17_BalanceNeverNegative == \A u \in Users : balance[u] >= 0

\* C18: once a game has game_over = true no step changes any of its columns,
\* and game_over becomes true only by the commit of an accepted "stop" (a
\* "next" that reaches the last position does not set it).
C18_ResolvedIsTerminal ==
    [][\A g \in DOMAIN games :
         /\ games[g].game_over => games'[g] = games[g]
         /\ (~games[g].game_over /\ games'[g].game_over)
            => \E r \in Workers :
                   /\ req[r].pc = "stop_commit" /\ req[r].gid = g
                   /\ req[r].act = "stop" /\ req[r].ok
                   /\ Moves(r)]_vars

\* C19: every POST to the play endpoint is answered with a rendered message
\* or view, never with an unhandled exception.
C19_NoUnhandledException ==
    out.method = "POST" => out.resp.kind \in {"open", "message"}

\* C20: while a user has an open game, no step of a POST of that user (other
\* than the request that created the game going on to debit it) creates a
\* game or lowers the user's balance.
C20_OpenGameBlocksCreate ==
    [][\A r \in Workers :
         (/\ Moves(r) /\ req[r].method = "POST" /\ ~req[r].created
          /\ OpenGames(req[r].user) # {})
         => /\ Len(games') = Len(games)
            /\ balance'[req[r].user] >= balance[req[r].user]]_vars

====
